---- MODULE Spec2Model ----
(***************************************************************************)
(* The adaptivity control loops of the hermes-tutorial examples            *)
(*   D-adaptivity/05-hcurl/main.cpp                 (static loop)          *)
(*   D-adaptivity/08-transient-space-only/main.cpp  (time stepping with a  *)
(*                                                   spatial loop per step)*)
(* The Hermes library (meshes, spaces, solvers, Adapt) is outside the      *)
(* repository: its calls are environment choices restricted only by what   *)
(* the call sites rely on.  A working discretization is abstracted to a    *)
(* few base elements, each with a refinement level above the base mesh and *)
(* a polynomial degree.  Errors are whole percents.                        *)
(***************************************************************************)
EXTENDS Integers, Sequences, FiniteSets, TLC

VARIABLES
  variant,          \* "hcurl" (05) or "transient" (08): which main() runs
  unref_method,     \* UNREF_METHOD, 08 line 41 (1, 2 or 3; 0 in variant hcurl)
  pc,               \* position of main()
  ts,               \* time step counter, 08 line 137 (0 in variant hcurl)
  current_time,     \* 08 line 137, a double
  as,               \* adaptivity step counter
  done,             \* loop flag
  space,            \* working mesh + space: [lev, ord], one entry per base element
  ndof_coarse,      \* 08 lines 110 and 161
  ref_space,        \* reference mesh + space of the running step, or NoSpace
  ref_sln,          \* ref_sln (05) / sln_time_new (08): [vec, st]
  sln,              \* sln (05) / sln_coarse (08): the projected reference solution
  sln_time_prev,    \* 08 line 113
  err_est_rel,      \* err_est_rel (05) / err_est_rel_total (08) of the running step
  err_exact_rel,    \* 05 line 166
  adapt_ret,        \* what adapt(&selector) returned in the running step, "none" if not called
  solve_failed,     \* whether the running step's solve threw
  graph_dof_est,    \* 05 line 102: sequence of <<dof, error>>
  graph_dof_exact,  \* 05 line 103
  graph_cpu_est,    \* 05 line 102: declared with the DOF graphs
  graph_cpu_exact,  \* 05 line 103
  cfg,              \* the configuration the program was built with: ERR_STOP,
                    \* time_step, T_FINAL, NDOF_STOP
  dofs_assigned,    \* whether the DOF map of space matches its mesh and degrees
  dof_query_failed, \* whether the DOF query of this time step threw (08 lines 159-166)
  unref_count,      \* derefinements applied in the running time step
  rk_input,         \* what the last rk_time_step_newton call of this time step was given
  builds,         \* reference builds performed in the running adaptivity run
  coeff_vec,      \* 05 line 128: whether the step's coefficient vector is allocated
  adaptivity,     \* 05 line 157, 08 line 205: whether the step's Adapt object is allocated
  stages,         \* the stages the running adaptivity step has performed, in order
  weak_form,      \* P03-transient/04-navier-stokes: the weak form a constructor has built, or NoWeakForm
  twin,             \* a second execution fed the same estimates, selector results
                    \* and refinements, with its own exact errors and solve outcomes
  earlier           \* what an earlier, finished execution of the same program left

vars == << variant, unref_method, pc, ts, current_time, as, done, space,
           ndof_coarse, ref_space, ref_sln, sln, sln_time_prev, err_est_rel,
           err_exact_rel, adapt_ret, solve_failed, graph_dof_est,
           graph_dof_exact, graph_cpu_est, graph_cpu_exact, cfg, dofs_assigned,
           dof_query_failed, unref_count, rk_input, builds,
           coeff_vec,
           adaptivity,
           stages,
           weak_form,
           twin, earlier >>

---------------------------------------------------------------------------
(* Bounds of the model *)

\* number of elements of the base mesh
NumElems == 1
\* deepest refinement level above the base mesh the model tracks
MaxLevel == 3
\* highest polynomial degree tracked, as an increment over P_INIT
MaxOrderInc == 1
\* DOF ceiling, scaled down to the model's DOF counts
NDOF_STOP == 5
\* final time in units of time_step (the source has 2.0 / 0.05)
T_FINAL == 3

(* Program constants *)

P_INIT == 2
ERR_STOP == 1
UNREF_FREQ == 1
time_step == 1

Elems == 1 .. NumElems
\* error estimates (percent): below the tolerance and at it
ErrValues == (ERR_STOP - 1) .. ERR_STOP
\* exact errors (percent): below and above the tolerance
ExactValues == {ERR_STOP - 1, ERR_STOP + 1}

NoStep == << 0, 0 >>
NoSpace == [lev |-> << >>, ord |-> << >>]
NoSolution == [vec |-> NoStep, st |-> "none"]
\* the integrator has not been called in this time step
NoCall == << >>
\* no weak form has been constructed
NoWeakForm == [class |-> "none", created |-> << >>, mfvol |-> << >>, vfvol |-> << >>]

\* the adaptivity step in progress: (time step, adaptivity step)
StepId == << ts, as >>

---------------------------------------------------------------------------
(* The discretization provider *)

RECURSIVE Pow2(_)
Pow2(n) == IF n = 0 THEN 1 ELSE 2 * Pow2(n - 1)

\* DOFs carried by one base element refined l times with degree p
ElemDofs(l, p) == Pow2(l) * (p - P_INIT + 1)

RECURSIVE SumDofs(_, _)
SumDofs(sp, n) ==
  IF n = 0 THEN 0 ELSE ElemDofs(sp.lev[n], sp.ord[n]) + SumDofs(sp, n - 1)

\* space->get_num_dofs()
get_num_dofs(sp) == SumDofs(sp, NumElems)

\* the base mesh with uniform degree P_INIT
BaseSpace == [lev |-> [e \in Elems |-> 0], ord |-> [e \in Elems |-> P_INIT]]

\* ReferenceMeshCreator / ReferenceSpaceCreator: one more layer, one more degree
create_ref_space(sp) ==
  [lev |-> [e \in Elems |-> sp.lev[e] + 1], ord |-> [e \in Elems |-> sp.ord[e] + 1]]

---------------------------------------------------------------------------
(* The candidate selector: Adapt::adapt(&selector) *)

\* the refinements adapt may commit: per element nothing, a split or a degree raise
Candidates(sp) ==
  { r \in [Elems -> {"none", "h", "p"}] :
      /\ \E e \in Elems : r[e] # "none"
      /\ \A e \in Elems : r[e] = "h" => sp.lev[e] < MaxLevel
      /\ \A e \in Elems : r[e] = "p" => sp.ord[e] < P_INIT + MaxOrderInc }

\* ApplyRefinement with the degree change of a "p" refinement subtracted
ApplyRefinementSignSlip(sp, r) ==
  [lev |-> [e \in Elems |-> IF r[e] = "h" THEN sp.lev[e] + 1 ELSE sp.lev[e]],
   ord |-> [e \in Elems |-> IF r[e] = "p" THEN sp.ord[e] - 1 ELSE sp.ord[e]]]

ApplyRefinement(sp, r) ==
  [lev |-> [e \in Elems |-> IF r[e] = "h" THEN sp.lev[e] + 1 ELSE sp.lev[e]],
   ord |-> [e \in Elems |-> IF r[e] = "p" THEN sp.ord[e] + 1 ELSE sp.ord[e]]]

\* no element qualifies
NoRefinement == [e \in Elems |-> "none"]

\* the selector's choices for one call: NoRefinement or a refinement
SelectorChoices == [Elems -> {"none", "h", "p"}]

\* whether choice c can be taken on sp
Feasible(sp, c) == c = NoRefinement \/ c \in Candidates(sp)

\* adapt reporting a refinement (false) that added nothing to the space
adaptWithoutGain(sp, c) ==
  IF c = NoRefinement THEN [ret |-> TRUE, space |-> sp]
  ELSE [ret |-> FALSE, space |-> sp]

\* adapt's result for choice c: it returns true and leaves the space alone when
\* nothing was refined, and returns false after committing a refinement
adapt(sp, c) ==
  IF c = NoRefinement THEN [ret |-> TRUE, space |-> sp]
  ELSE [ret |-> FALSE, space |-> ApplyRefinement(sp, c)]

---------------------------------------------------------------------------
(* The stop-or-refine decision *)

\* the tolerance test made non-strict
ToleranceMetNonStrict(est, exact) == est <= cfg.ERR_STOP

\* the tolerance test reading the exact error
ToleranceMetOnExact(est, exact) == exact < cfg.ERR_STOP

\* if(err_est_rel < ERR_STOP)
ToleranceMet(est, exact) == est < cfg.ERR_STOP

\* the ceiling test made strict
CeilingReachedStrict(n) == n > cfg.NDOF_STOP

\* if(space->get_num_dofs() >= NDOF_STOP)
CeilingReached(n) == n >= cfg.NDOF_STOP

\* the return value of adapt as the step records it
Ret(b) == IF b THEN "true" ELSE "false"

\* DecideStatic with the return value of adapt dropped
DecideStaticIgnoringRet(est, exact, sp, asv, c) ==
  IF ToleranceMet(est, exact)
  THEN [done |-> TRUE, as |-> asv, space |-> sp, adapt_ret |-> "none"]
  ELSE LET out == adapt(sp, c)
       IN [done |-> CeilingReached(get_num_dofs(out.space)),
           as |-> asv + 1, space |-> out.space, adapt_ret |-> Ret(out.ret)]

\* 05 lines 174-183
DecideStatic(est, exact, sp, asv, c) ==
  IF ToleranceMet(est, exact)
  THEN [done |-> TRUE, as |-> asv, space |-> sp, adapt_ret |-> "none"]
  ELSE LET out == adapt(sp, c)
           as1 == IF out.ret = FALSE THEN asv + 1 ELSE asv
       IN [done |-> out.ret \/ CeilingReached(get_num_dofs(out.space)),
           as |-> as1, space |-> out.space, adapt_ret |-> Ret(out.ret)]

\* 08 lines 212-224
DecideTransient(est, exact, sp, asv, c) ==
  IF ToleranceMet(est, exact)
  THEN [done |-> TRUE, as |-> asv, space |-> sp, adapt_ret |-> "none"]
  ELSE LET out == adapt(sp, c)
           hit == CeilingReached(get_num_dofs(out.space))
       IN [done |-> out.ret \/ hit,
           as |-> IF hit THEN asv ELSE asv + 1,
           space |-> out.space, adapt_ret |-> Ret(out.ret)]

\* the decision with adapt called before the tolerance is tested
DecisionAdaptingFirst(v, est, exact, sp, asv, c) ==
  LET out == adapt(sp, c)
  IN IF ToleranceMet(est, exact)
     THEN [done |-> TRUE, as |-> asv, space |-> out.space, adapt_ret |-> Ret(out.ret)]
     ELSE IF v = "hcurl" THEN DecideStatic(est, exact, sp, asv, c)
     ELSE DecideTransient(est, exact, sp, asv, c)

\* the decision of variant v
Decision(v, est, exact, sp, asv, c) ==
  IF v = "hcurl" THEN DecideStatic(est, exact, sp, asv, c)
  ELSE DecideTransient(est, exact, sp, asv, c)

---------------------------------------------------------------------------
(* Derefinement, 08 lines 144-153 *)

Max(a, b) == IF a >= b THEN a ELSE b

\* mesh->copy(basemesh): the mesh is the base mesh again
copy_basemesh(sp) == [sp EXCEPT !.lev = BaseSpace.lev]

\* unrefine_all_elements taking every layer off
unrefine_all_elementsToBase(sp) == [sp EXCEPT !.lev = BaseSpace.lev]

\* mesh->unrefine_all_elements(): one layer shaved off, the base mesh is kept
unrefine_all_elements(sp) ==
  [sp EXCEPT !.lev = [e \in Elems |-> Max(sp.lev[e] - 1, 0)]]

\* set_uniform_order leaving the degrees as they are
set_uniform_orderKept(sp, p) == sp

\* space->set_uniform_order(P_INIT)
set_uniform_order(sp, p) == [sp EXCEPT !.ord = [e \in Elems |-> p]]

\* adjust_element_order without its lower limit
adjust_element_orderUnbounded(sp, change, min_order) ==
  [sp EXCEPT !.ord = [e \in Elems |-> sp.ord[e] + change]]

\* space->adjust_element_order(-1, -1, P_INIT, P_INIT)
adjust_element_order(sp, change, min_order) ==
  [sp EXCEPT !.ord = [e \in Elems |-> Max(sp.ord[e] + change, min_order)]]

Derefined(sp, method) ==
  CASE method = 1 -> set_uniform_order(copy_basemesh(sp), P_INIT)
    [] method = 2 -> set_uniform_order(unrefine_all_elements(sp), P_INIT)
    [] method = 3 -> adjust_element_order(unrefine_all_elements(sp), -1, P_INIT)
    [] OTHER -> sp

\* the schedule without its exception for the first time step
DerefinementDueFromFirst(t) == t % UNREF_FREQ = 0

\* if (ts > 1 && ts % UNREF_FREQ == 0)
DerefinementDue(t) == t > 1 /\ t % UNREF_FREQ = 0

\* the derefinement block without its call of assign_dofs
assign_dofsSkipped(assigned) == assigned

\* space->assign_dofs(), 08 line 158: the DOF map is rebuilt
assign_dofs(assigned) == TRUE

\* whether Space<double>::get_num_dofs(space) throws, 08 lines 159-166: it does
\* on a space whose DOFs were not reassigned; the library is outside the
\* repository and the call site provides for an exception in any case
DofQueryThrows(assigned) == IF assigned THEN BOOLEAN ELSE {TRUE}

\* where main() goes after the try/catch around the DOF query: the handler
\* prints the message and the time step goes on
AfterDofQuery(thrown) == "build"

---------------------------------------------------------------------------
(* The clock: current_time, time_step and T_FINAL are IEEE doubles, 08 lines  *)
(* 31, 33 and 137.  A double x >= 0 is held as the integer x * 2^58, written  *)
(* as three limbs << high, middle, low >> of 20 bits each (the high limb may  *)
(* be longer); the mantissa of a double keeps the 53 leading bits.            *)

\* 2^20
Limb == 1048576

RECURSIVE BitLength(_)
BitLength(n) == IF n = 0 THEN 0 ELSE 1 + BitLength(n \div 2)

\* the double of a small integer n: n * 2^58 = n * 2^18 * 2^40
Double(n) == << n * (Limb \div 4), 0, 0 >>

\* the limbs h, m, l with their carries propagated
Normalized(h, m, l) ==
  LET ml == m + (l \div Limb)
  IN << h + (ml \div Limb), ml % Limb, l % Limb >>

\* the bits of x below the 53 bits a mantissa holds: the low and middle limbs
\* have 40, so these are the bits of the high limb above its 13th
ExcessBits(x) == BitLength(x[1] \div (Limb \div 128))

\* rounding that drops the excess bits
DoubleRoundTowardZero(x) ==
  LET m == Pow2(ExcessBits(x))
  IN << x[1], x[2], x[3] - (x[3] % m) >>

\* the double nearest to x, ties to the even mantissa: the rounding of a
\* double addition
DoubleRound(x) ==
  IF x[3] = 0 THEN x   \* the excess bits are in the low limb: nothing to round
  ELSE LET m == Pow2(ExcessBits(x))
           r == x[3] % m
           up == 2 * r > m \/ (2 * r = m /\ ((x[3] \div m) % 2) = 1)
       IN Normalized(x[1], x[2], x[3] - r + (IF up THEN m ELSE 0))

\* a + b in double arithmetic: current_time += time_step, 08 line 244
DoubleAdd(a, b) == DoubleRound(Normalized(a[1] + b[1], a[2] + b[2], a[3] + b[3]))

\* a < b: current_time < T_FINAL, 08 line 247
DoubleLess(a, b) ==
  \/ a[1] < b[1]
  \/ a[1] = b[1] /\ a[2] < b[2]
  \/ a[1] = b[1] /\ a[2] = b[2] /\ a[3] < b[3]

\* the literals 0.05 (08 line 31) and 0.1 as doubles
Double_0_05 == << 13107, 209715, 209716 >>
Double_0_1 == << 26214, 419430, 419432 >>

\* the configuration of the sources, scaled to T_FINAL / time_step time steps
SourceConfig ==
  [ERR_STOP |-> ERR_STOP, time_step |-> Double(time_step),
   T_FINAL |-> Double(T_FINAL), NDOF_STOP |-> NDOF_STOP]
\* configurations a build can be given: the tolerance may be negative and the
\* time step zero
Configs ==
  [ERR_STOP : {ERR_STOP, -ERR_STOP}, time_step : {Double(time_step), Double(0)},
   T_FINAL : {Double(T_FINAL)}, NDOF_STOP : {NDOF_STOP}]
\* configurations with the ceiling at a DOF count the refinements reach exactly
\* and at one they step over
CeilingConfigs ==
  [ERR_STOP : {ERR_STOP}, time_step : {Double(time_step)},
   T_FINAL : {Double(T_FINAL)}, NDOF_STOP : {NDOF_STOP - 1, NDOF_STOP}]
\* the clock of the sources, time_step = 0.05 and T_FINAL = 2.0, and clocks
\* around it; the tolerance is one no estimate exceeds, so that every
\* adaptivity run ends with its first step
ClockConfigs ==
  [ERR_STOP : {ERR_STOP + 1}, time_step : {Double_0_05, Double_0_1},
   T_FINAL : {Double(1), Double(2)}, NDOF_STOP : {NDOF_STOP}]
SourceClock ==
  [ERR_STOP |-> ERR_STOP + 1, time_step |-> Double_0_05, T_FINAL |-> Double(2),
   NDOF_STOP |-> NDOF_STOP]

---------------------------------------------------------------------------
(* The program *)

TwinInit ==
  [done |-> FALSE, as |-> 1, space |-> BaseSpace, err_exact_rel |-> ERR_STOP - 1,
   solve_failed |-> FALSE]

\* no earlier execution
NoRun == [cause |-> "none", done |-> FALSE, graph_dof_est |-> << >>,
          graph_dof_exact |-> << >>]

\* the state main() starts its loops in, for variant v with UNREF_METHOD m
Start(v, m) ==
  /\ variant = v
  /\ unref_method = m
  /\ pc = IF variant = "transient" THEN "timestep" ELSE "build"
  /\ ts = IF variant = "transient" THEN 1 ELSE 0
  /\ current_time = Double(0)
  /\ as = 1
  /\ done = FALSE
  /\ space = BaseSpace
  /\ ndof_coarse = get_num_dofs(BaseSpace)
  /\ ref_space = NoSpace
  /\ ref_sln = NoSolution
  /\ sln = NoSolution
  /\ sln_time_prev = [vec |-> NoStep, st |-> "initial"]
  /\ err_est_rel = ERR_STOP - 1
  /\ err_exact_rel = ERR_STOP - 1
  /\ adapt_ret = "none"
  /\ solve_failed = FALSE
  /\ graph_dof_est = << >>
  /\ graph_dof_exact = << >>
  /\ graph_cpu_est = << >>
  /\ graph_cpu_exact = << >>
  /\ dofs_assigned = TRUE
  /\ dof_query_failed = FALSE
  /\ unref_count = 0
  /\ rk_input = NoCall
  /\ builds = 0
  /\ coeff_vec = FALSE
  /\ adaptivity = FALSE
  /\ stages = << >>
  /\ weak_form = NoWeakForm
  /\ twin = TwinInit

Init ==
  /\ \E v \in {"hcurl", "transient"} :
       \E m \in (IF v = "transient" THEN 1 .. 3 ELSE {0}) : Start(v, m)
  /\ cfg = SourceConfig
  /\ earlier = NoRun

\* the program built with any configuration; time_step is read by 08 only
InitAnyConfig ==
  /\ \E v \in {"hcurl", "transient"} :
       /\ \E m \in (IF v = "transient" THEN 1 .. 3 ELSE {0}) : Start(v, m)
       /\ cfg \in {c \in Configs : v = "hcurl" => c.time_step = Double(time_step)}
  /\ earlier = NoRun

\* the program built with the ceilings of CeilingConfigs
InitAnyCeiling ==
  /\ \E v \in {"hcurl", "transient"} :
       \E m \in (IF v = "transient" THEN 1 .. 3 ELSE {0}) : Start(v, m)
  /\ cfg \in CeilingConfigs
  /\ earlier = NoRun

\* the program run with the clocks of ClockConfigs
InitClock ==
  /\ \E m \in 1 .. 3 : Start("transient", m)
  /\ cfg \in ClockConfigs
  /\ earlier = NoRun

\* the time steps a run with time_step = 0, which never reaches T_FINAL, is
\* followed for
MaxTimeSteps == T_FINAL

\* 08 lines 140-171: periodic derefinement with the DOFs reassigned and
\* counted, then the spatial loop is entered
TimeStepBegin ==
  /\ pc = "timestep"
  /\ cfg.time_step = Double(0) => ts <= MaxTimeSteps
  /\ IF DerefinementDue(ts)
     THEN /\ space' = Derefined(space, unref_method)
          /\ unref_count' = unref_count + 1
          /\ dofs_assigned' = assign_dofs(FALSE)
          /\ \E thrown \in DofQueryThrows(dofs_assigned') :
               /\ dof_query_failed' = thrown
               /\ ndof_coarse' = IF thrown THEN ndof_coarse ELSE get_num_dofs(space')
               /\ pc' = AfterDofQuery(thrown)
          /\ twin' = [twin EXCEPT !.space = Derefined(twin.space, unref_method),
                                  !.done = FALSE, !.as = 1]
     ELSE /\ UNCHANGED << space, ndof_coarse, unref_count, dofs_assigned,
                          dof_query_failed >>
          /\ pc' = "build"
          /\ twin' = [twin EXCEPT !.done = FALSE, !.as = 1]
  /\ done' = FALSE
  /\ as' = 1
  /\ builds' = 0
  /\ UNCHANGED << variant, unref_method, ts, current_time, ref_space, ref_sln,
                  sln, sln_time_prev, err_est_rel, err_exact_rel, adapt_ret,
                  solve_failed, graph_dof_est, graph_dof_exact, earlier,
                  graph_cpu_est, graph_cpu_exact, cfg, rk_input, coeff_vec, adaptivity, stages, weak_form >>

\* no run takes more adaptivity steps than this: every step that goes on has
\* added a DOF and the loop is left at NDOF_STOP DOFs
MaxAdaptSteps == NDOF_STOP

\* 05 lines 118-129, 08 lines 176-181
BuildReference ==
  /\ pc = "build"
  /\ as <= MaxAdaptSteps
  /\ ref_space' = create_ref_space(space)
  /\ builds' = builds + 1
  /\ coeff_vec' = (variant = "hcurl")
  /\ stages' = Append(stages, "build")
  /\ adapt_ret' = "none"
  /\ solve_failed' = FALSE
  /\ twin' = [twin EXCEPT !.solve_failed = FALSE]
  /\ pc' = "solve"
  /\ UNCHANGED << variant, unref_method, ts, current_time, as, done, space,
                  ndof_coarse, ref_sln, sln, sln_time_prev, err_est_rel,
                  err_exact_rel, graph_dof_est, graph_dof_exact, earlier,
                  graph_cpu_est, graph_cpu_exact, cfg,
                  dofs_assigned, dof_query_failed, unref_count, rk_input, adaptivity, weak_form >>

\* a caught exception of the solver passing over the projection
AfterSolveSkippingProjection(failed) == IF failed THEN "estimate" ELSE "project"

\* the solver's exception leaving main()
AfterSolveUncaught(failed) == IF failed THEN "exit" ELSE "project"

\* where main() goes after the try/catch around the solve
AfterSolve(failed) == "project"

\* what the reference solution holds after the solve: the step's own converged
\* solution, or, after an exception, what was there before or a partial iterate
SolveResults(failed, old, id) ==
  IF failed THEN {old, [vec |-> id, st |-> "partial"]}
  ELSE {[vec |-> id, st |-> "converged"]}

\* rk_time_step_newton storing its result in its input
rk_time_step_newtonInPlace(prev, out) == [sln_time_prev |-> out, sln_time_new |-> out]

\* runge_kutta.rk_time_step_newton(sln_time_prev, sln_time_new), 08 line 190:
\* the first argument is read, the second written
rk_time_step_newton(prev, out) == [sln_time_prev |-> prev, sln_time_new |-> out]

\* 05 lines 131-139, 08 lines 184-196
Solve ==
  /\ pc = "solve"
  /\ \E failed \in BOOLEAN, twin_failed \in BOOLEAN :
       /\ solve_failed' = failed
       /\ \E out \in SolveResults(failed, ref_sln, StepId) :
            IF variant = "transient"
            THEN LET r == rk_time_step_newton(sln_time_prev, out)
                 IN /\ ref_sln' = r.sln_time_new
                    /\ sln_time_prev' = r.sln_time_prev
                    /\ rk_input' = << sln_time_prev, current_time, cfg.time_step >>
            ELSE /\ ref_sln' = out
                 /\ UNCHANGED << sln_time_prev, rk_input >>
       /\ twin' = [twin EXCEPT !.solve_failed = twin_failed]
       /\ pc' = AfterSolve(failed)
  /\ stages' = Append(stages, "solve")
  /\ UNCHANGED << variant, unref_method, ts, current_time, as, done, space,
                  ndof_coarse, ref_space, sln, err_est_rel,
                  err_exact_rel, adapt_ret, graph_dof_est, graph_dof_exact, earlier,
                  graph_cpu_est, graph_cpu_exact, cfg, dofs_assigned,
                  dof_query_failed, unref_count, builds, coeff_vec, adaptivity, weak_form >>

\* 05 lines 141-143, 08 lines 198-201
Project ==
  /\ pc = "project"
  /\ sln' = ref_sln
  /\ stages' = Append(stages, "project")
  /\ pc' = "estimate"
  /\ UNCHANGED << variant, unref_method, ts, current_time, as, done, space,
                  ndof_coarse, ref_space, ref_sln, sln_time_prev, err_est_rel,
                  err_exact_rel, adapt_ret, solve_failed, graph_dof_est,
                  graph_dof_exact, twin, earlier,
                  graph_cpu_est, graph_cpu_exact, cfg,
                  dofs_assigned, dof_query_failed, unref_count, rk_input, builds, coeff_vec, adaptivity, weak_form >>

\* add_values replacing the last entry
add_valuesInPlace(graph, x, y) ==
  IF graph = << >> THEN << << x, y >> >>
  ELSE [graph EXCEPT ![Len(graph)] = << x, y >>]

\* SimpleGraph::add_values(x, y), 05 lines 169 and 171
add_values(graph, x, y) == Append(graph, << x, y >>)

\* 05 lines 156-172, 08 lines 203-210
Estimate ==
  /\ pc = "estimate"
  /\ \E est \in ErrValues, exact \in ExactValues, twin_exact \in ExactValues :
       /\ err_est_rel' = est
       /\ IF variant = "hcurl"
          THEN /\ err_exact_rel' = exact
               /\ graph_dof_est' = add_values(graph_dof_est, get_num_dofs(space), est)
               /\ graph_dof_exact' = add_values(graph_dof_exact, get_num_dofs(space), exact)
               /\ twin' = [twin EXCEPT !.err_exact_rel = twin_exact]
          ELSE /\ UNCHANGED << err_exact_rel, graph_dof_est, graph_dof_exact, twin >>
  /\ adaptivity' = TRUE
  /\ stages' = Append(stages, "estimate")
  /\ pc' = "decide"
  /\ UNCHANGED << variant, unref_method, ts, current_time, as, done, space,
                  ndof_coarse, ref_space, ref_sln, sln, sln_time_prev,
                  adapt_ret, solve_failed, earlier,
                  graph_cpu_est, graph_cpu_exact, cfg,
                  dofs_assigned, dof_query_failed, unref_count, rk_input, builds, coeff_vec, weak_form >>

\* 05 lines 174-183, 08 lines 212-224
Decide ==
  /\ pc = "decide"
  /\ \E c \in SelectorChoices :
       /\ Feasible(space, c)
       /\ LET d == Decision(variant, err_est_rel, err_exact_rel, space, as, c)
              t == Decision(variant, err_est_rel, twin.err_exact_rel, twin.space, twin.as, c)
          IN /\ done' = d.done
             /\ as' = d.as
             /\ space' = d.space
             /\ adapt_ret' = d.adapt_ret
             /\ twin' = [twin EXCEPT !.done = t.done, !.as = t.as, !.space = t.space]
  /\ stages' = Append(stages, "decide")
  /\ pc' = "cleanup"
  /\ UNCHANGED << variant, unref_method, ts, current_time, ndof_coarse,
                  ref_space, ref_sln, sln, sln_time_prev, err_est_rel,
                  err_exact_rel, solve_failed, graph_dof_est, graph_dof_exact,
                  earlier,
                  graph_cpu_est, graph_cpu_exact, cfg,
                  dofs_assigned, dof_query_failed, unref_count, rk_input, builds, coeff_vec, adaptivity, weak_form >>

\* while (done == false): where main() goes after the loop body
LoopTest(v, d) ==
  IF d = FALSE THEN "build" ELSE IF v = "hcurl" THEN "exit" ELSE "advance"

\* delete that leaves the object allocated
delete_objectLeaked(allocated) == allocated

\* delete [] coeff_vec, delete adaptivity: 05 lines 186-187, 08 line 237
delete_object(allocated) == FALSE

\* 05 lines 185-189, 08 lines 226-239: the deletes, then the handles of the
\* loop body (ref_mesh, ref_space) go out of scope
CleanUp ==
  /\ pc = "cleanup"
  /\ coeff_vec' = IF variant = "hcurl" THEN delete_object(coeff_vec) ELSE coeff_vec
  /\ adaptivity' = delete_object(adaptivity)
  /\ ref_space' = NoSpace
  /\ stages' = << >>
  /\ pc' = LoopTest(variant, done)
  /\ UNCHANGED << variant, unref_method, ts, current_time, as, done, space,
                  ndof_coarse, ref_sln, sln, sln_time_prev, err_est_rel,
                  err_exact_rel, adapt_ret, solve_failed, graph_dof_est,
                  graph_dof_exact, twin, earlier,
                  graph_cpu_est, graph_cpu_exact, cfg,
                  dofs_assigned, dof_query_failed, unref_count, rk_input, builds, weak_form >>

\* 08 lines 241-247
Advance ==
  /\ pc = "advance"
  /\ sln_time_prev' = ref_sln
  /\ \E t \in {DoubleAdd(current_time, cfg.time_step)} :
       /\ current_time' = t
       /\ pc' = IF DoubleLess(t, cfg.T_FINAL) THEN "timestep" ELSE "exit"
  /\ ts' = ts + 1
  /\ dof_query_failed' = FALSE
  /\ unref_count' = 0
  /\ rk_input' = NoCall
  /\ UNCHANGED << variant, unref_method, as, done, space, ndof_coarse,
                  ref_space, ref_sln, sln, err_est_rel, err_exact_rel,
                  adapt_ret, solve_failed, graph_dof_est, graph_dof_exact, twin, earlier,
                  graph_cpu_est, graph_cpu_exact, cfg, dofs_assigned, builds, coeff_vec, adaptivity, stages, weak_form >>

\* the adaptivity loop has been left
LoopExited == pc \in {"advance", "exit"}

\* why the last adaptivity loop was left
ExitCause ==
  IF ToleranceMet(err_est_rel, err_exact_rel) THEN "tolerance"
  ELSE IF adapt_ret = "true" THEN "stagnation"
  ELSE IF CeilingReached(get_num_dofs(space)) THEN "ceiling"
  ELSE "none"

\* what a finished execution leaves: the loop's result flag and the files
\* conv_dof_est.dat, conv_dof_exact.dat (05 lines 170, 172)
Left ==
  [cause |-> ExitCause, done |-> done, graph_dof_est |-> graph_dof_est,
   graph_dof_exact |-> graph_dof_exact]

\* the program is run once more with the same configuration
Rerun ==
  /\ pc = "exit"
  /\ earlier = NoRun
  /\ earlier' = Left
  /\ pc' = IF variant = "transient" THEN "timestep" ELSE "build"
  /\ ts' = IF variant = "transient" THEN 1 ELSE 0
  /\ current_time' = Double(0)
  /\ as' = 1
  /\ done' = FALSE
  /\ space' = BaseSpace
  /\ ndof_coarse' = get_num_dofs(BaseSpace)
  /\ ref_space' = NoSpace
  /\ ref_sln' = NoSolution
  /\ sln' = NoSolution
  /\ sln_time_prev' = [vec |-> NoStep, st |-> "initial"]
  /\ err_est_rel' = ERR_STOP - 1
  /\ err_exact_rel' = ERR_STOP - 1
  /\ adapt_ret' = "none"
  /\ solve_failed' = FALSE
  /\ graph_dof_est' = << >>
  /\ graph_dof_exact' = << >>
  /\ graph_cpu_est' = << >>
  /\ graph_cpu_exact' = << >>
  /\ dofs_assigned' = TRUE
  /\ dof_query_failed' = FALSE
  /\ unref_count' = 0
  /\ rk_input' = NoCall
  /\ builds' = 0
  /\ coeff_vec' = FALSE
  /\ adaptivity' = FALSE
  /\ stages' = << >>
  /\ weak_form' = NoWeakForm
  /\ twin' = TwinInit
  /\ UNCHANGED << variant, unref_method, cfg >>

Next ==
  \/ TimeStepBegin
  \/ BuildReference
  \/ Solve
  \/ Project
  \/ Estimate
  \/ Decide
  \/ CleanUp
  \/ Advance

Spec == Init /\ [][Next]_vars

\* main() is a sequential program: it always takes its next step
FairSpec == Spec /\ WF_vars(Next)

\* two executions of the program, one after the other
NextRerun == Next \/ Rerun

SpecRerun == Init /\ [][NextRerun]_vars

\* the program under any configuration
SpecAnyConfig == InitAnyConfig /\ [][Next]_vars
SpecClock == InitClock /\ [][Next]_vars
SpecAnyCeiling == InitAnyCeiling /\ [][Next]_vars

---------------------------------------------------------------------------
(* Properties *)

DofCount == get_num_dofs(space)

\* C1 (as stated): whenever the adaptivity loop has been left, the last
\* estimated error is below ERR_STOP or the working space has at least
\* NDOF_STOP DOFs; there is no other way out.
C1_ExitOnlyByToleranceOrCeiling ==
  (LoopExited /\ done) => (err_est_rel < ERR_STOP \/ DofCount >= NDOF_STOP)

\* C1 (amended): whenever the adaptivity loop has been left, the last estimated
\* error is below ERR_STOP, or adapt returned true in the last step, or the
\* working space has at least NDOF_STOP DOFs.
C1_ExitPostcondition ==
  /\ LoopExited => done
  /\ (pc \in {"cleanup", "advance", "exit"} /\ done) =>
       \/ err_est_rel < ERR_STOP
       \/ adapt_ret = "true"
       \/ DofCount >= NDOF_STOP

C1_Witness ==
  /\ LoopExited
  /\ err_est_rel >= ERR_STOP
  /\ adapt_ret = "true"
  /\ DofCount < NDOF_STOP

\* C2: every adaptivity loop that is entered is left after finitely many
\* steps, whatever the error estimates, solver failures and selector results.
C2_Termination == (pc = "build") ~> LoopExited

C2_Witness ==
  /\ LoopExited
  /\ err_est_rel >= ERR_STOP
  /\ adapt_ret = "false"
  /\ solve_failed
  /\ DofCount >= NDOF_STOP
  /\ as >= 2

\* C3: a step in which adapt returns true (the error being at or above
\* ERR_STOP) ends with done set, and from the end of that step main() leaves
\* the loop: it builds no further reference space in that run.
C3_StagnationStop ==
  [][ /\ (pc' = "cleanup" /\ adapt_ret' = "true") => (done' /\ err_est_rel' >= ERR_STOP)
      /\ (pc = "cleanup" /\ adapt_ret = "true") => (pc' \in {"advance", "exit"} /\ ref_space' = NoSpace)
    ]_vars

C3_Witness ==
  /\ LoopExited
  /\ adapt_ret = "true"
  /\ err_est_rel >= ERR_STOP
  /\ DofCount < NDOF_STOP
  /\ as >= 2

\* C4: a step whose solve throws goes on through projection, estimation and
\* decision like any other; its decision is the one a step with a successful
\* solve takes on the same estimate, and the loop is continued or left by
\* that decision alone.
C4_DegradedContinuation ==
  [][ /\ pc = "solve" => pc' = "project"
      /\ (solve_failed /\ pc = "project") => pc' = "estimate"
      /\ (solve_failed /\ pc = "estimate") => pc' = "decide"
      /\ (solve_failed /\ pc = "decide") =>
           (pc' = "cleanup" /\ (~twin.solve_failed => (done' = twin'.done /\ as' = twin'.as)))
      /\ (solve_failed /\ pc = "cleanup") =>
           pc' = (IF done THEN (IF variant = "hcurl" THEN "exit" ELSE "advance") ELSE "build")
    ]_vars

C4_Witness ==
  /\ pc = "build"
  /\ as >= 2
  /\ solve_failed
  /\ ~twin.solve_failed

\* what one adaptivity step leaves behind: the flag, the counter, the DOF count
\* and the errors it appended to the convergence graphs
StepOutcome == << done, as, DofCount, err_est_rel, err_exact_rel >>

TwinStepOutcome ==
  << twin.done, twin.as, get_num_dofs(twin.space), err_est_rel, twin.err_exact_rel >>

\* C5: after a step whose solve threw, what the step leaves differs from what
\* a step with a successful solve and the same errors and DOF count leaves.
C5_DegradedDetectable ==
  (pc = "cleanup" /\ solve_failed /\ ~twin.solve_failed) =>
    StepOutcome # TwinStepOutcome

\* C6: a loop left at the DOF ceiling with the error still at or above
\* ERR_STOP reports another outcome than a loop left because the error fell
\* below ERR_STOP.
C6_CeilingDistinct ==
  (pc = "exit" /\ ExitCause = "ceiling" /\ earlier.cause = "tolerance") =>
    done # earlier.done

\* C7: a loop left by stagnation leaves a persisted history that differs from
\* the history of an execution left by tolerance and from the history of one
\* left at the DOF ceiling.
C7_StagnationDistinct ==
  (pc = "exit" /\ ExitCause = "stagnation" /\ earlier.cause \in {"tolerance", "ceiling"}) =>
    << graph_dof_est, graph_dof_exact >> #
      << earlier.graph_dof_est, earlier.graph_dof_exact >>

\* C8: the reference solution that is projected and estimated against is the
\* one the running step's own solve produced, also when that solve failed.
C8_NoStaleState ==
  /\ pc \in {"project", "estimate", "decide"} => ref_sln.vec = StepId
  /\ pc \in {"estimate", "decide"} => sln.vec = StepId

\* C9: two executions of the static loop that get the same error estimates,
\* selector results and refinements but different exact errors agree at every
\* point on the flag done, the step counter and the working discretization.
C9_ExactErrorNoInfluence ==
  variant = "hcurl" =>
    (twin.done = done /\ twin.as = as /\ twin.space = space)

C9_Witness ==
  /\ variant = "hcurl"
  /\ pc = "exit"
  /\ as >= 2
  /\ err_est_rel >= ERR_STOP
  /\ err_exact_rel < ERR_STOP
  /\ twin.err_exact_rel > ERR_STOP

\* C10: the DOF count of the working space never decreases, except in the
\* derefinement at the start of a time step.
C10_MonotonicRefinement ==
  [][ get_num_dofs(space') < get_num_dofs(space) =>
        (pc = "timestep" /\ ts > 1 /\ pc' = "build" /\ as' = 1) ]_vars

C10_Witness ==
  /\ variant = "transient"
  /\ ts >= 2
  /\ as >= 2
  /\ pc = "build"
  /\ DofCount > ndof_coarse

---------------------------------------------------------------------------
(* Diagnostic histories, 05 lines 101-103 and 168-172 *)

\* the DOF column of a history never decreases
NonDecreasingDofs(graph) ==
  \A i \in 1 .. Len(graph) - 1 : graph[i][1] <= graph[i + 1][1]

\* new is old with the one record x after it
ExtendedBy(old, new, x) ==
  /\ Len(new) = Len(old) + 1
  /\ \A i \in 1 .. Len(old) : new[i] = old[i]
  /\ new[Len(new)] = x

\* the positions of main() inside the body of the adaptivity loop
InAdaptivityStep == pc \in {"solve", "project", "estimate", "decide", "cleanup"}

\* C11: in the static loop every step, the last one included, adds exactly one
\* (DOF, error) record to the estimate history and one to the exact history,
\* before the step's refinement and with the DOF count of the space the error
\* was computed on; records are never removed or rewritten, a finished loop has
\* at least one, and the DOF column never decreases.
C11_DiagnosticHistory ==
  [][variant = "hcurl" =>
       /\ pc = "estimate" =>
            /\ ExtendedBy(graph_dof_est, graph_dof_est',
                          << get_num_dofs(space), err_est_rel' >>)
            /\ ExtendedBy(graph_dof_exact, graph_dof_exact',
                          << get_num_dofs(space), err_exact_rel' >>)
            /\ space' = space
            /\ Len(graph_dof_est') = as
       /\ pc # "estimate" =>
            /\ graph_dof_est' = graph_dof_est
            /\ graph_dof_exact' = graph_dof_exact
       /\ NonDecreasingDofs(graph_dof_est')
       /\ NonDecreasingDofs(graph_dof_exact')
       /\ pc' = "exit" => Len(graph_dof_est') >= 1 /\ Len(graph_dof_exact') >= 1
    ]_vars

\* a finished static run of two steps whose second record has more DOFs
C11_Witness ==
  /\ variant = "hcurl"
  /\ pc = "exit"
  /\ Len(graph_dof_est) = 2
  /\ Len(graph_dof_exact) = 2
  /\ graph_dof_est[1][1] < graph_dof_est[2][1]

\* C12: every completed step of the static loop adds a record to the
\* time-based histories graph_cpu_est and graph_cpu_exact too, so they have as
\* many records as the DOF-based histories.
C12_TimeHistories ==
  (variant = "hcurl" /\ pc \in {"decide", "cleanup", "exit"}) =>
    /\ Len(graph_cpu_est) = Len(graph_dof_est)
    /\ Len(graph_cpu_exact) = Len(graph_dof_exact)

---------------------------------------------------------------------------
(* Derefinement, 08 lines 140-167 *)

\* the first reference build of a time step is next
FirstBuild == variant = "transient" /\ pc = "build" /\ as = 1

\* C13: after every derefinement the DOFs of the space are reassigned before
\* the next reference space is built and the next solve runs.
C13_DofsReassigned ==
  (variant = "transient" /\ (pc = "build" \/ InAdaptivityStep)) => dofs_assigned

\* the solve of a time step that began with a derefinement
C13_Witness ==
  /\ variant = "transient"
  /\ pc = "solve"
  /\ as = 1
  /\ unref_count = 1
  /\ dofs_assigned

\* C14: when the DOF query after a derefinement throws, the exception reaches
\* the caller and the run ends: the time step's adaptivity loop is not entered.
C14_DesyncFatal == dof_query_failed => pc = "exit"

\* C15: with a negative tolerance or a zero time step the run reports an error
\* and ends at once, without entering its loops.
C15_InvalidConfigRejected ==
  (cfg.ERR_STOP < 0 \/ cfg.time_step = Double(0)) =>
    ~ (InAdaptivityStep \/ pc = "advance")

C17_BaseOrOneFiner ==
  (FirstBuild /\ unref_method = 3) =>
    \A e \in Elems : space.lev[e] <= 1 /\ space.ord[e] <= P_INIT + 1

\* C17: under policy 3 the discretization at the first reference build of a
\* time step after the first is the one the time step before ended with, less
\* one layer (the base mesh is kept) and one degree (P_INIT is kept); at the
\* first time step it is the base discretization.
C17_OneLayerShaved ==
  [][(variant = "transient" /\ unref_method = 3 /\ pc = "timestep") =>
       /\ ts = 1 => space' = BaseSpace
       /\ ts > 1 =>
            \A e \in Elems :
              /\ space'.lev[e] = (IF space.lev[e] > 0 THEN space.lev[e] - 1 ELSE 0)
              /\ space'.ord[e] =
                   (IF space.ord[e] > P_INIT THEN space.ord[e] - 1 ELSE P_INIT)
       /\ pc' = "build" /\ as' = 1
    ]_vars

\* a first reference build under policy 3 two layers above the base mesh
C17_Witness ==
  /\ FirstBuild
  /\ unref_method = 3
  /\ ts > 1
  /\ \E e \in Elems : space.lev[e] = 2

\* C18: after policy 1 and the reassignment of the DOFs the discretization has
\* the base mesh and degree P_INIT everywhere, and its DOF count is that of the
\* base discretization, the value ndof_coarse had before the first time step.
C18_ResetToBase ==
  (FirstBuild /\ unref_method = 1 /\ ts > 1) =>
    /\ \A e \in Elems : space.lev[e] = 0 /\ space.ord[e] = P_INIT
    /\ dofs_assigned
    /\ get_num_dofs(space) = get_num_dofs(BaseSpace)
    /\ ndof_coarse = get_num_dofs(BaseSpace)

\* policy 1 applied after a time step that took several adaptivity steps
C18_Witness ==
  /\ FirstBuild
  /\ unref_method = 1
  /\ ts > 1
  /\ unref_count = 1
  /\ sln_time_prev.vec[2] > 1
  /\ space = BaseSpace

\* C19: in the transient run no element ever has a degree below P_INIT,
\* however often policy 3 is applied.
C19_DegreeFloor ==
  variant = "transient" =>
    /\ \A e \in Elems : space.ord[e] >= P_INIT
    /\ ref_space # NoSpace => \A e \in Elems : ref_space.ord[e] >= P_INIT

\* policy 3 applied for the second time, to a space that had no degree to give
\* (the time step before took one adaptivity step from degrees P_INIT)
C19_Witness ==
  /\ FirstBuild
  /\ unref_method = 3
  /\ ts > 2
  /\ unref_count = 1
  /\ sln_time_prev.vec[2] = 1
  /\ \A e \in Elems : space.ord[e] = P_INIT

\* C20: during one time step's adaptivity loop sln_time_prev, current_time and
\* the time step size are not modified, and every adaptivity step calls the
\* integrator with the same previous solution, time and step size.
C20_IntegratorInputsFixed ==
  [][variant = "transient" =>
       /\ (pc = "build" \/ InAdaptivityStep) =>
            /\ sln_time_prev' = sln_time_prev
            /\ current_time' = current_time
            /\ cfg' = cfg
       /\ pc = "solve" =>
            /\ rk_input' = << sln_time_prev, current_time, cfg.time_step >>
            /\ as > 1 => rk_input' = rk_input
    ]_vars

\* a second adaptivity step of a later time step has called the integrator
C20_Witness ==
  /\ variant = "transient"
  /\ ts > 1
  /\ as > 1
  /\ pc = "project"
  /\ rk_input = << sln_time_prev, current_time, cfg.time_step >>
  /\ sln_time_prev.st # "initial"

---------------------------------------------------------------------------
(* The time stepping loop, 08 lines 136-247 *)

\* the adaptivity step that ran last in the running time step
LastStepId == << ts, builds >>

\* C21: once per time step, after the adaptivity loop has been left and before
\* the next time step's first solve, sln_time_prev is replaced by the solution
\* sln_time_new that the final adaptivity step of the time step obtained, and
\* the solves of the next time step are given that field.
C21_CarryOver ==
  [][variant = "transient" =>
       /\ pc = "advance" =>
            /\ sln_time_prev' = ref_sln
            /\ sln_time_prev'.vec = LastStepId
            /\ sln_time_prev'.st = "converged"
       /\ pc # "advance" => sln_time_prev' = sln_time_prev
       /\ pc = "solve" => rk_input'[1] = sln_time_prev
    ]_vars

\* the program was built with the clock of the sources and has left the time
\* stepping loop
SourceClockRunEnded == variant = "transient" /\ cfg = SourceClock /\ pc = "exit"

\* time steps executed so far (ts is one ahead once a time step has ended)
TimeStepsExecuted == ts - 1

\* C22: with time_step = 0.05 and T_FINAL = 2.0 the time stepping loop executes
\* exactly 40 time steps, ts counting 1..40, and then terminates with
\* current_time equal to T_FINAL.
C22_FortyStepsToFinalTime ==
  /\ (variant = "transient" /\ cfg = SourceClock /\ pc # "exit") => ts <= 40
  /\ SourceClockRunEnded => TimeStepsExecuted = 40 /\ current_time = cfg.T_FINAL

\* C22 as the code has it: exactly 40 time steps are executed, ts counting
\* 1..40, each at a time below T_FINAL that is the double sum of the time steps
\* added so far, and the loop terminates with current_time = 2 + 2^-50
\* (2.000000000000001), the first such sum that is not below T_FINAL.
C22_FortyStepsPastFinalTime ==
  /\ (variant = "transient" /\ cfg = SourceClock /\ pc # "exit") =>
       /\ ts <= 40
       /\ DoubleLess(current_time, cfg.T_FINAL)
       /\ ts = 4 => current_time = << 39321, 629145, 629152 >>
       /\ ts = 40 => current_time = << 511180, 838860, 839168 >>
  /\ SourceClockRunEnded =>
       /\ TimeStepsExecuted = 40
       /\ current_time = << 524288, 0, 256 >>
       /\ current_time # cfg.T_FINAL

C22_Witness == SourceClockRunEnded /\ TimeStepsExecuted = 40

---------------------------------------------------------------------------
(* Lifetime of the objects of one adaptivity step *)

\* main() is between two adaptivity steps or past the loop
BetweenSteps == pc \in {"timestep", "build", "advance", "exit"}

---------------------------------------------------------------------------
(* The continue/stop function, 05 lines 174-189 and 08 lines 212-239 *)

\* the loop goes on after a step with estimate est whose adapt call returned
\* ret and left n DOFs
GoesOn(est, ret, n) == est >= cfg.ERR_STOP /\ ret = "false" /\ n < cfg.NDOF_STOP

\* C24: in both variants a step is followed by another one exactly if the
\* estimate is >= ERR_STOP, adapt returned false and the working space has fewer
\* than NDOF_STOP DOFs after the step's refinement; an estimate equal to ERR_STOP
\* does not stop, a DOF count equal to NDOF_STOP does, and the two variants
\* decide alike on the same inputs.
C24_DecisionFunction ==
  /\ pc = "cleanup" =>
       /\ done = ~ GoesOn(err_est_rel, adapt_ret, get_num_dofs(space))
       /\ LoopTest(variant, done) = "build"
            <=> GoesOn(err_est_rel, adapt_ret, get_num_dofs(space))
       /\ get_num_dofs(space) >= cfg.NDOF_STOP => done
       /\ err_est_rel = cfg.ERR_STOP => adapt_ret # "none"
  /\ pc = "decide" =>
       \A c \in SelectorChoices :
         Feasible(space, c) =>
           LET s == DecideStatic(err_est_rel, err_exact_rel, space, as, c)
               t == DecideTransient(err_est_rel, err_exact_rel, space, as, c)
           IN /\ s.done = t.done
              /\ s.space = t.space
              /\ s.adapt_ret = t.adapt_ret

\* a refinement brought the DOF count to NDOF_STOP exactly at an estimate equal
\* to ERR_STOP
C24_Witness ==
  /\ pc = "cleanup"
  /\ err_est_rel = cfg.ERR_STOP
  /\ adapt_ret = "false"
  /\ get_num_dofs(space) = cfg.NDOF_STOP
  /\ done

---------------------------------------------------------------------------
(* The adaptivity step counter *)

\* C25: as starts at 1 in every adaptivity run and is incremented exactly when
\* a refinement was committed and the loop goes back to the reference build: at
\* every reference build as is the number of reference builds of the run so
\* far, and when the loop is left as is the number of steps executed, in both
\* variants and whatever made the loop stop.
C25_StepCounter ==
  /\ pc = "solve" => as = builds
  /\ LoopExited => as = builds

---------------------------------------------------------------------------
(* The stages of one adaptivity step *)

StageOrder == << "build", "solve", "project", "estimate", "decide" >>

\* the first n stages
FirstStages(n) == SubSeq(StageOrder, 1, n)

\* C26: in every adaptivity step the stages reference build, solve, project,
\* estimate and decide happen once each in this order, the refinement only in
\* the decision after the estimate; a step begins only when the one before has
\* decided, and no stage is skipped, also when the solve fails.
C26_StageOrder ==
  [][/\ \E n \in 0 .. Len(StageOrder) : stages' = FirstStages(n)
     /\ pc' = "cleanup" <=> stages' = StageOrder
     /\ pc' = "solve" => stages' = FirstStages(1)
     /\ BetweenSteps' => stages' = << >>
     /\ (space' # space /\ pc # "timestep") => stages = FirstStages(4)
     /\ (pc = "solve" /\ solve_failed') => stages' = FirstStages(2) /\ pc' = "project"
   ]_vars

\* a step whose solve failed has gone through all its stages
C26_Witness ==
  /\ pc = "cleanup"
  /\ solve_failed
  /\ stages = StageOrder
  /\ builds > 1

---------------------------------------------------------------------------
(* The reference discretization of a step *)

\* r is sp refined uniformly: every element split once and raised one degree
UniformRefinementOf(r, sp) ==
  /\ DOMAIN r.lev = DOMAIN sp.lev
  /\ \A e \in Elems : r.lev[e] = sp.lev[e] + 1 /\ r.ord[e] = sp.ord[e] + 1

\* the stages that use the reference discretization, and the decision
UsesReference(p) == p \in {"solve", "project", "estimate", "decide"}

\* the adaptivity step whose reference mesh solution s is defined on.  05 binds
\* ref_sln to the running step's ref_space whatever the solver did
\* (vector_to_solution, line 139); in 08 sln_time_new keeps the mesh of the
\* step that wrote it
MeshStepOf(s) == IF variant = "hcurl" THEN LastStepId ELSE s.vec

\* C27: at every solve, projection and estimate the reference mesh and space
\* are the ones derived in the same step from the working discretization as it
\* is then; the working discretization is not changed between a step's
\* reference build and its estimate, so the reference is a refinement of the
\* working discretization when it is projected on.
C27_ReferenceFresh ==
  [][/\ UsesReference(pc') => UniformRefinementOf(ref_space', space')
     /\ pc \in {"build", "solve", "project", "estimate"} => space' = space
     /\ (UsesReference(pc) /\ UsesReference(pc')) => ref_space' = ref_space
     /\ pc \in {"project", "estimate"} => MeshStepOf(ref_sln) = LastStepId
   ]_vars

---------------------------------------------------------------------------
(* A step that meets the tolerance *)

\* C28: in a step whose estimate is strictly below ERR_STOP adapt is not called
\* and the step leaves the working mesh, the degrees and the DOF count as they
\* are, so that the loop is left with the discretization the last estimate was
\* computed on.
C28_NoRefinementOnceMet ==
  [][/\ (pc = "decide" /\ err_est_rel < cfg.ERR_STOP) =>
          /\ adapt_ret' = "none"
          /\ space' = space
          /\ get_num_dofs(space') = get_num_dofs(space)
          /\ done'
     /\ (pc = "cleanup" /\ err_est_rel < cfg.ERR_STOP) =>
          /\ space' = space
          /\ LoopExited'
   ]_vars

\* the tolerance was met on a refined discretization, which the step left alone
C28_Witness ==
  /\ pc = "cleanup"
  /\ err_est_rel < cfg.ERR_STOP
  /\ adapt_ret = "none"
  /\ builds > 1
  /\ space # BaseSpace
  /\ UniformRefinementOf(ref_space, space)

---------------------------------------------------------------------------
(* The weak forms of P03-transient/04-navier-stokes, definitions.cpp *)

\* the constructors' arguments
ReynoldsValues == {1, 200, 1000}
TimeStepValues == {Double(1), Double_0_05, Double_0_1}
\* Solution<double>* x_vel_previous_time, y_vel_previous_time
VelocityPointers == {"xvel_prev_time", "yvel_prev_time"}

\* new MatrixFormVol subclass cls(i, j, ...) with its constructor arguments
MatrixForm(cls, i, j, args) ==
  [kind |-> "matrix", class |-> cls, i |-> i, j |-> j, args |-> args, ext |-> << >>]

\* new VectorFormVol subclass cls(i, ...) with its constructor arguments
VectorForm(cls, i, args) ==
  [kind |-> "vector", class |-> cls, i |-> i, j |-> -1, args |-> args, ext |-> << >>]

\* form->ext = e
WithExt(form, e) == [form EXCEPT !.ext = e]

\* definitions.cpp lines 3-36: the forms created, and those handed to
\* add_matrix_form and add_vector_form, in the order of the calls
WeakFormNSSimpleLinearization(Stokes, Reynolds, dt, x_vel_previous_time, y_vel_previous_time) ==
  LET sym_form_0 == MatrixForm("BilinearFormSymVel", 0, 0, << Stokes, Reynolds, dt >>)
      sym_form_1 == MatrixForm("BilinearFormSymVel", 1, 1, << Stokes, Reynolds, dt >>)
      unsym_vel_form_0 ==
        WithExt(MatrixForm("BilinearFormUnSymVel", 0, 0, << Stokes >>),
                << x_vel_previous_time, y_vel_previous_time >>)
      unsym_vel_form_1 ==
        WithExt(MatrixForm("BilinearFormUnSymVel", 1, 1, << Stokes >>),
                << x_vel_previous_time, y_vel_previous_time >>)
      unsym_velx_pressure_form == MatrixForm("BilinearFormUnSymXVelPressure", 0, 2, << >>)
      unsym_vely_pressure_form == MatrixForm("BilinearFormUnSymYVelPressure", 1, 2, << >>)
      vector_vel_form_x ==
        WithExt(VectorForm("VectorFormVolVel", 0, << Stokes, dt >>), << x_vel_previous_time >>)
      vector_vel_form_y ==
        WithExt(VectorForm("VectorFormVolVel", 1, << Stokes, dt >>), << y_vel_previous_time >>)
  IN [class |-> "WeakFormNSSimpleLinearization",
      created |-> << sym_form_0, sym_form_1, unsym_vel_form_0, unsym_vel_form_1,
                     unsym_velx_pressure_form, unsym_vely_pressure_form,
                     vector_vel_form_x, vector_vel_form_y >>,
      mfvol |-> << sym_form_0, sym_form_1, unsym_vel_form_0, unsym_vel_form_1,
                   unsym_velx_pressure_form, unsym_vely_pressure_form >>,
      vfvol |-> << >>]

\* definitions.cpp lines 141-172
WeakFormNSNewton(Stokes, Reynolds, dt, x_vel_previous_time, y_vel_previous_time) ==
  LET sym_form_0 == MatrixForm("BilinearFormSymVel", 0, 0, << Stokes, Reynolds, dt >>)
      sym_form_1 == MatrixForm("BilinearFormSymVel", 1, 1, << Stokes, Reynolds, dt >>)
      unsym_vel_form_0_0 == MatrixForm("BilinearFormUnSymVel_0_0", 0, 0, << Stokes >>)
      unsym_vel_form_0_1 == MatrixForm("BilinearFormUnSymVel_0_1", 0, 1, << Stokes >>)
      unsym_vel_form_1_0 == MatrixForm("BilinearFormUnSymVel_1_0", 1, 0, << Stokes >>)
      unsym_vel_form_1_1 == MatrixForm("BilinearFormUnSymVel_1_1", 1, 1, << Stokes >>)
      unsym_velx_pressure_form == MatrixForm("BilinearFormUnSymXVelPressure", 0, 2, << >>)
      unsym_vely_pressure_form == MatrixForm("BilinearFormUnSymYVelPressure", 1, 2, << >>)
      F_0 == WithExt(VectorForm("VectorFormNS_0", 0, << Stokes, Reynolds, dt >>),
                     << x_vel_previous_time, y_vel_previous_time >>)
      F_1 == WithExt(VectorForm("VectorFormNS_1", 1, << Stokes, Reynolds, dt >>),
                     << x_vel_previous_time, y_vel_previous_time >>)
      F_2 == VectorForm("VectorFormNS_2", 2, << >>)
  IN [class |-> "WeakFormNSNewton",
      created |-> << sym_form_0, sym_form_1, unsym_vel_form_0_0, unsym_vel_form_0_1,
                     unsym_vel_form_1_0, unsym_vel_form_1_1, unsym_velx_pressure_form,
                     unsym_vely_pressure_form, F_0, F_1, F_2 >>,
      mfvol |-> << sym_form_0, sym_form_1, unsym_vel_form_0_0, unsym_vel_form_0_1,
                   unsym_vel_form_1_0, unsym_vel_form_1_1, unsym_velx_pressure_form,
                   unsym_vely_pressure_form >>,
      vfvol |-> << F_0, F_1, F_2 >>]

\* everything but weak_form
ProgramVars ==
  << variant, unref_method, pc, ts, current_time, as, done, space, ndof_coarse,
     ref_space, ref_sln, sln, sln_time_prev, err_est_rel, err_exact_rel,
     adapt_ret, solve_failed, graph_dof_est, graph_dof_exact, graph_cpu_est,
     graph_cpu_exact, cfg, dofs_assigned, dof_query_failed, unref_count,
     rk_input, builds, coeff_vec, adaptivity, stages, twin, earlier >>

\* a WeakFormNSSimpleLinearization is constructed
ConstructSimpleLinearization ==
  /\ weak_form = NoWeakForm
  /\ \E Stokes \in BOOLEAN, Reynolds \in ReynoldsValues, dt \in TimeStepValues,
        x \in VelocityPointers, y \in VelocityPointers :
       weak_form' = WeakFormNSSimpleLinearization(Stokes, Reynolds, dt, x, y)
  /\ UNCHANGED ProgramVars

\* a WeakFormNSNewton is constructed
ConstructNewton ==
  /\ weak_form = NoWeakForm
  /\ \E Stokes \in BOOLEAN, Reynolds \in ReynoldsValues, dt \in TimeStepValues,
        x \in VelocityPointers, y \in VelocityPointers :
       weak_form' = WeakFormNSNewton(Stokes, Reynolds, dt, x, y)
  /\ UNCHANGED ProgramVars

NextWeakForm == ConstructSimpleLinearization \/ ConstructNewton

SpecWeakForm == Init /\ [][NextWeakForm]_vars

\* the forms registered with weak form w
Registered(w) ==
  {w.mfvol[k] : k \in 1 .. Len(w.mfvol)} \cup {w.vfvol[k] : k \in 1 .. Len(w.vfvol)}

\* C29: the constructor of WeakFormNSSimpleLinearization registers every form it
\* creates, six matrix forms and two vector forms, one per velocity component
\* with the previous-time velocity as external function, as the constructor of
\* WeakFormNSNewton registers its eight matrix forms and three vector forms.
C29_EveryFormRegistered ==
  /\ weak_form # NoWeakForm =>
       \A k \in 1 .. Len(weak_form.created) : weak_form.created[k] \in Registered(weak_form)
  /\ weak_form.class = "WeakFormNSSimpleLinearization" =>
       /\ Len(weak_form.mfvol) = 6
       /\ Len(weak_form.vfvol) = 2
       /\ \A k \in 1 .. Len(weak_form.vfvol) : weak_form.vfvol[k].ext # << >>
  /\ weak_form.class = "WeakFormNSNewton" =>
       /\ Len(weak_form.mfvol) = 8
       /\ Len(weak_form.vfvol) = 3

====
